---- MODULE Spec2Model ----
(***************************************************************************)
(* The LLM batch-labeling subsystem of sentiment_analysis_tool.py:         *)
(* run_llm_batch with its nested helpers, the ledger file it keeps, and    *)
(* the process that calls it run after run and may be terminated.          *)
(*                                                                         *)
(* Representation.  A Python str is a sequence of one-character strings.   *)
(* An input text is run-length encoded, a sequence of runs [c, n] (the     *)
(* character c repeated n times), so that texts of a few thousand          *)
(* characters, which is what the chunker's budget is measured in, stay     *)
(* small values.  A float score is an integer number of thousandths.       *)
(***************************************************************************)
EXTENDS Integers, Sequences, FiniteSets, TLC

Min(a, b) == IF a < b THEN a ELSE b
Max(a, b) == IF a > b THEN a ELSE b

Range(s) == {s[i] : i \in 1..Len(s)}

(***************************************************************************)
(* Bounds of the model.                                                    *)
(***************************************************************************)
MaxRows == 2      \* rows of an input frame
MaxRuns == 2      \* invocations of run_llm_batch by the process

(***************************************************************************)
(* Python str primitives, on sequences of characters.                      *)
(***************************************************************************)
Whitespace == {" ", "\t", "\n", "\r"}
Digits == {"0", "1", "2", "3", "4", "5", "6", "7", "8", "9"}

DigitVal(c) ==
    CASE c = "0" -> 0 [] c = "1" -> 1 [] c = "2" -> 2 [] c = "3" -> 3
      [] c = "4" -> 4 [] c = "5" -> 5 [] c = "6" -> 6 [] c = "7" -> 7
      [] c = "8" -> 8 [] c = "9" -> 9

\* str.lower() on one character (the upper-case letters replies here use)
LowerCh(c) ==
    CASE c = "P" -> "p" [] c = "O" -> "o" [] c = "S" -> "s" [] c = "N" -> "n"
      [] c = "E" -> "e" [] c = "G" -> "g" [] c = "Y" -> "y" [] c = "T" -> "t"
      [] c = "R" -> "r" [] c = "U" -> "u" [] c = "B" -> "b" [] c = "I" -> "i"
      [] c = "A" -> "a"
      [] OTHER -> c

Lower(s) == [i \in 1..Len(s) |-> LowerCh(s[i])]

RECURSIVE LStrip(_, _)
LStrip(s, chars) ==
    IF s # <<>> /\ Head(s) \in chars THEN LStrip(Tail(s), chars) ELSE s

RECURSIVE RStrip(_, _)
RStrip(s, chars) ==
    IF s # <<>> /\ s[Len(s)] \in chars
    THEN RStrip(SubSeq(s, 1, Len(s) - 1), chars) ELSE s

\* s.strip() and s.strip(chars)
Strip(s) == RStrip(LStrip(s, Whitespace), Whitespace)
StripChars(s, chars) == RStrip(LStrip(s, chars), chars)

\* s.split(sep) for a one-character separator: always at least one part
RECURSIVE SplitFrom(_, _, _, _)
SplitFrom(s, seps, i, cur) ==
    IF i > Len(s) THEN <<cur>>
    ELSE IF s[i] \in seps THEN <<cur>> \o SplitFrom(s, seps, i + 1, <<>>)
    ELSE SplitFrom(s, seps, i + 1, Append(cur, s[i]))

Split(s, sep) == SplitFrom(s, {sep}, 1, <<>>)

\* s.splitlines(): the lines between line breaks; a CR LF pair only adds an
\* empty line between, and empty lines are skipped by the only caller
SplitLines(s) == IF s = <<>> THEN <<>> ELSE SplitFrom(s, {"\n", "\r"}, 1, <<>>)

StartsWith(s, p) == Len(s) >= Len(p) /\ SubSeq(s, 1, Len(p)) = p

\* int(digits) for a sequence of decimal digits
RECURSIVE IntOf(_)
IntOf(ds) ==
    IF ds = <<>> THEN 0 ELSE 10 * IntOf(SubSeq(ds, 1, Len(ds) - 1)) + DigitVal(ds[Len(ds)])

\* len(str(n)) for n >= 0
RECURSIVE DecLen(_)
DecLen(n) == IF n < 10 THEN 1 ELSE 1 + DecLen(n \div 10)

(***************************************************************************)
(* Input texts, run-length encoded.                                        *)
(***************************************************************************)
Run(c, n) == [c |-> c, n |-> n]

RECURSIVE TextLen(_)
TextLen(t) == IF t = <<>> THEN 0 ELSE Head(t).n + TextLen(Tail(t))

\* text.replace(from, to)
ReplaceCh(t, from, to) ==
    [i \in 1..Len(t) |-> IF t[i].c = from THEN Run(to, t[i].n) ELSE t[i]]

\* the same string with adjacent runs of one character merged
RECURSIVE Canon(_)
Canon(t) ==
    IF Len(t) < 2 THEN t
    ELSE IF t[1].c = t[2].c
         THEN Canon(<<Run(t[1].c, t[1].n + t[2].n)>> \o SubSeq(t, 3, Len(t)))
         ELSE <<t[1]>> \o Canon(Tail(t))

RECURSIVE LStripRuns(_)
LStripRuns(t) ==
    IF t # <<>> /\ Head(t).c \in Whitespace THEN LStripRuns(Tail(t)) ELSE t

RECURSIVE RStripRuns(_)
RStripRuns(t) ==
    IF t # <<>> /\ t[Len(t)].c \in Whitespace
    THEN RStripRuns(SubSeq(t, 1, Len(t) - 1)) ELSE t

StripRuns(t) == RStripRuns(LStripRuns(t))

\* hashlib.sha1(t.encode("utf-8")).hexdigest()[:12], as a sequence of hex digits.
\* The digests are those SHA-1 gives for these strings.
Sha1Hex12(t) ==
    CASE t = <<Run("a", 1500)>>
           -> <<"c", "5", "2", "0", "e", "6", "1", "0", "9", "8", "3", "5">>
      [] t = <<Run("b", 1456)>>
           -> <<"0", "8", "6", "8", "5", "1", "7", "5", "0", "8", "8", "5">>
      [] t = <<>>
           -> <<"d", "a", "3", "9", "a", "3", "e", "e", "5", "e", "6", "b">>
      [] t = <<Run("a", 990)>>
           -> <<"f", "5", "b", "8", "6", "6", "4", "0", "b", "9", "e", "7">>
      [] t = <<Run("a", 1900)>>
           -> <<"f", "d", "5", "2", "e", "9", "5", "7", "a", "4", "e", "a">>
      [] t = <<Run("a", 4000)>>
           -> <<"3", "8", "e", "4", "f", "3", "c", "0", "c", "1", "4", "b">>
      [] t = <<Run("a", 4500)>>
           -> <<"d", "f", "1", "6", "a", "f", "c", "7", "4", "5", "9", "2">>
      [] t = <<Run("x", 1), Run(" ", 1), Run("y", 1)>>
           -> <<"7", "3", "d", "e", "c", "5", "9", "3", "4", "a", "d", "c">>
      [] t = <<Run("x", 1), Run(" ", 2), Run("y", 1)>>
           -> <<"a", "2", "5", "3", "8", "a", "b", "b", "b", "7", "9", "a">>

_hash_sig(text) ==
    Sha1Hex12(Canon(StripRuns(ReplaceCh(ReplaceCh(text, "\r", " "), "\n", " "))))

(***************************************************************************)
(* The ledger file labels_<model>.csv.                                     *)
(*                                                                         *)
(* A ledger row is [id, llm_label, llm_score, llm_sarcasm, llm_ethics,     *)
(* cache_sig].  The file is absent, or holds what has been written to it   *)
(* so far: nothing at all (zero bytes), or the header line followed by     *)
(* rows, whose cells are the text DataFrame.to_csv wrote.                  *)
(***************************************************************************)
NoFile == [exists |-> FALSE, header |-> FALSE, rows |-> <<>>]
ZeroBytes == [exists |-> TRUE, header |-> FALSE, rows |-> <<>>]

\* df.sort_values("id"): numpy sorts the short arrays of this model by
\* insertion, which keeps rows of equal id in their order
RECURSIVE InsertById(_, _)
InsertById(sorted, r) ==
    IF sorted = <<>> THEN <<r>>
    ELSE IF sorted[Len(sorted)].id <= r.id THEN Append(sorted, r)
    ELSE Append(InsertById(SubSeq(sorted, 1, Len(sorted) - 1), r), sorted[Len(sorted)])

RECURSIVE SortById(_)
SortById(rows) ==
    IF rows = <<>> THEN <<>>
    ELSE InsertById(SortById(SubSeq(rows, 1, Len(rows) - 1)), rows[Len(rows)])

\* what _write_csv(path, df_out) leaves in the file once to_csv has returned:
\* the header and every row, sorted by id; a str cell is written as it is
CsvImage(df_out) == [exists |-> TRUE, header |-> TRUE, rows |-> SortById(df_out)]

\* what the file holds when to_csv, which opened it with mode "w", has
\* flushed only the header and the first k rows
CsvPrefix(df_out, k) ==
    [exists |-> TRUE, header |-> TRUE, rows |-> SubSeq(SortById(df_out), 1, k)]

\* read_csv infers a column's dtype from all of its cells: a column whose
\* every cell is a decimal integer becomes int64, so that astype(str) gives
\* the integer's own decimal form; any other cell keeps the column as text
IsIntCell(s) == s # <<>> /\ \A i \in 1..Len(s) : s[i] \in Digits

IntColumn(rows) ==
    rows # <<>> /\ \A i \in 1..Len(rows) : IsIntCell(rows[i].cache_sig)

\* str(int(s))
StrOfInt(s) == IF LStrip(s, {"0"}) = <<>> THEN <<"0">> ELSE LStrip(s, {"0"})

\* pd.read_csv(out_path) of an existing file: raises EmptyDataError on a file
\* without a header line
read_csv(f) ==
    [raised |-> ~f.header,
     rows |-> IF IntColumn(f.rows)
              THEN [i \in 1..Len(f.rows) |->
                       [f.rows[i] EXCEPT !.cache_sig = StrOfInt(f.rows[i].cache_sig)]]
              ELSE f.rows]

\* set(zip(frame["id"].astype(int), frame["cache_sig"].astype(str)))
Keys(rows) == {<<rows[i].id, rows[i].cache_sig>> : i \in 1..Len(rows)}

(***************************************************************************)
(* The prompt and the chunker.                                             *)
(***************************************************************************)
SysMsgLen == 397        \* len(sys_msg), no vendor suffix
UserHeadLen == 76       \* len("Classify id<TAB>text. ... same order.\n\n")
RowCap == 4000          \* the [:4000] of a row's line
MinBudget == 2000
Margin == 128

\* text[:k]
RECURSIVE Take(_, _)
Take(t, k) ==
    IF t = <<>> \/ k <= 0 THEN <<>>
    ELSE IF Head(t).n >= k THEN <<Run(Head(t).c, k)>>
    ELSE <<Head(t)>> \o Take(Tail(t), k - Head(t).n)

\* f'{int(r.id)}\t{r.text.replace(chr(10)," ").replace(chr(13)," ")[:4000]}'
Line(r) ==
    [id |-> r.id,
     text |-> Take(ReplaceCh(ReplaceCh(r.text, "\n", " "), "\r", " "), RowCap)]

LineLen(ln) == DecLen(ln.id) + 1 + TextLen(ln.text)

RECURSIVE SumLineLen(_)
SumLineLen(lns) == IF lns = <<>> THEN 0 ELSE LineLen(Head(lns)) + SumLineLen(Tail(lns))

\* (buf_ids, user): the ids of a chunk and its user message, kept as the
\* lines it joins with "\n" after the fixed head
Chunk(buf) ==
    [ids |-> [i \in 1..Len(buf) |-> buf[i].id],
     lines |-> buf,
     user_len |-> UserHeadLen + SumLineLen(buf) + (Len(buf) - 1)]

Budget(max_prompt_chars) == Max(MinBudget, max_prompt_chars - SysMsgLen - Margin)

\* BuildLoop losing the row that closes a chunk
RECURSIVE BuildLoop_drop(_, _, _, _, _, _)
BuildLoop_drop(frame, i, chunks, buf, buf_len, budget) ==
    IF i > Len(frame)
    THEN (IF buf # <<>> THEN Append(chunks, Chunk(buf)) ELSE chunks)
    ELSE IF buf_len # 0 /\ buf_len + LineLen(Line(frame[i])) + 1 > budget
         THEN BuildLoop_drop(frame, i + 1, Append(chunks, Chunk(buf)), <<>>, 0, budget)
         ELSE BuildLoop_drop(frame, i + 1, chunks, Append(buf, Line(frame[i])),
                             buf_len + LineLen(Line(frame[i])) + 1, budget)

RECURSIVE BuildLoop(_, _, _, _, _, _)
BuildLoop(frame, i, chunks, buf, buf_len, budget) ==
    IF i > Len(frame)
    THEN (IF buf # <<>> THEN Append(chunks, Chunk(buf)) ELSE chunks)
    ELSE LET ln == Line(frame[i])
             add == LineLen(ln) + 1
         IN  IF buf_len # 0 /\ buf_len + add > budget
             THEN BuildLoop(frame, i + 1, Append(chunks, Chunk(buf)), <<ln>>, add, budget)
             ELSE BuildLoop(frame, i + 1, chunks, Append(buf, ln), buf_len + add, budget)

_build_chunks(frame, max_prompt_chars) ==
    IF frame = <<>> THEN <<>>
    ELSE BuildLoop(frame, 1, <<>>, <<>>, 0, Budget(max_prompt_chars))

(***************************************************************************)
(* The reply parser.                                                       *)
(***************************************************************************)
\* ETH_CODES, in the order sorted() gives its members
ETH_CODES ==
    << <<"b","i","a","s">>,
       <<"j","o","b","_","d","i","s","p","l","a","c","e","m","e","n","t">>,
       <<"n","o","n","e">>,
       <<"p","r","i","v","a","c","y">>,
       <<"s","a","f","e","t","y">>,
       <<"t","r","a","n","s","p","a","r","e","n","c","y">> >>

None == <<"n","o","n","e">>

\* LabelOf that knows the shorthand only
LabelOf_exact(t) ==
    CASE t \in {<<"-">>, <<"n","e","g">>} -> "negative"
      [] t \in {<<"+">>, <<"p","o","s">>} -> "positive"
      [] OTHER -> "neutral"

\* lab_map.get(t, "positive" if t.startswith("pos") else ...)
LabelOf(t) ==
    CASE t = <<"-">> -> "negative"
      [] t = <<"+">> -> "positive"
      [] t = <<"n">> -> "neutral"
      [] t = <<"n","e","g">> -> "negative"
      [] t = <<"p","o","s">> -> "positive"
      [] OTHER -> IF StartsWith(t, <<"p","o","s">>) THEN "positive"
                  ELSE IF StartsWith(t, <<"n","e","g">>) THEN "negative"
                  ELSE "neutral"

\* lab_map.get(t, ...) of t = (x or "").strip().lower()
_norm_label(x) == LabelOf(Lower(Strip(x)))

\* the digits of a decimal fraction as thousandths: "8" -> 800, "25" -> 250
MilliDigit(frac, i) == IF i <= Len(frac) THEN DigitVal(frac[i]) ELSE 0
Milli(frac) == 100 * MilliDigit(frac, 1) + 10 * MilliDigit(frac, 2) + MilliDigit(frac, 3)

AllDigits(s) == \A i \in 1..Len(s) : s[i] \in Digits

Float(v) == [ok |-> TRUE, nan |-> FALSE, v |-> v]
NaN == [ok |-> TRUE, nan |-> TRUE, v |-> 0]
ValueError == [ok |-> FALSE, nan |-> FALSE, v |-> 0]

FloatDigits(sign, n, ip, fp) ==
    IF n <= 2 /\ AllDigits(ip) /\ AllDigits(fp) /\ Len(ip) + Len(fp) > 0
    THEN Float(sign * (1000 * IntOf(ip) + Milli(fp)))
    ELSE ValueError

FloatParts(sign, parts) ==
    FloatDigits(sign, Len(parts), parts[1], IF Len(parts) = 2 THEN parts[2] ELSE <<>>)

FloatUnsigned(sign, u) ==
    IF u \in {<<"i","n","f">>, <<"i","n","f","i","n","i","t","y">>}
    THEN Float(sign * 1000000)
    ELSE IF u = <<"n","a","n">> THEN NaN
    ELSE FloatParts(sign, Split(u, "."))

FloatSigned(t) ==
    FloatUnsigned(IF t # <<>> /\ Head(t) = "-" THEN -1 ELSE 1,
                  IF t # <<>> /\ Head(t) \in {"-", "+"} THEN Tail(t) ELSE t)

\* float(s): [ok, nan, v], v in thousandths.  Decimal spellings with an
\* optional sign and at most one point, and inf / nan; the replies of this
\* model use no exponent
ParseFloat(s) == FloatSigned(Lower(Strip(s)))

\* min(1.0, v) keeps its first argument when v is nan
Clamp(f) ==
    IF ~f.ok THEN 0 ELSE IF f.nan THEN 1000 ELSE Max(-1000, Min(1000, f.v))

_norm_score_val(s, lab) == IF lab = "neutral" THEN 0 ELSE Clamp(ParseFloat(s))

_norm_bool(s) ==
    Lower(Strip(s)) \in {<<"1">>, <<"y">>, <<"y","e","s">>, <<"t","r","u","e">>}

RECURSIVE DropSpaces(_)
DropSpaces(s) ==
    IF s = <<>> THEN <<>>
    ELSE (IF Head(s) = " " THEN <<>> ELSE <<Head(s)>>) \o DropSpaces(Tail(s))

RECURSIVE KeepCodes(_, _)
KeepCodes(codes, toks) ==
    IF codes = <<>> THEN <<>>
    ELSE (IF Head(codes) \in toks THEN <<Head(codes)>> ELSE <<>>)
         \o KeepCodes(Tail(codes), toks)

\* [z.strip().lower() for z in parts if z.strip()], as a set
Tokens(parts) ==
    {Lower(Strip(parts[i])) : i \in {j \in 1..Len(parts) : Strip(parts[j]) # <<>>}}

OrNone(kept) == IF kept = <<>> THEN <<None>> ELSE kept

\* ",".join(sorted(set(toks))) or "none", kept as the sequence of codes joined
_norm_ethics(s) ==
    IF s = <<>> THEN <<None>>
    ELSE OrNone(KeepCodes(ETH_CODES, Tokens(Split(DropSpaces(s), ","))))

\* re.sub(r"[^\d]", "", s)
RECURSIVE OnlyDigits(_)
OnlyDigits(s) ==
    IF s = <<>> THEN <<>>
    ELSE (IF Head(s) \in Digits THEN <<Head(s)>> ELSE <<>>) \o OnlyDigits(Tail(s))

Record(rid, lab, parts) ==
    [id |-> rid,
     llm_label |-> lab,
     llm_score |-> _norm_score_val(parts[3], lab),
     llm_sarcasm |-> _norm_bool(parts[4]),
     llm_ethics |-> _norm_ethics(parts[5])]

\* parts = [p.strip() for p in line.split("|")]; four parts get "none" appended
ParseParts(parts) ==
    IF Len(parts) < 4 THEN [ok |-> FALSE]
    ELSE [ok |-> TRUE,
          rec |-> Record(IntOf(OnlyDigits(parts[1])), _norm_label(parts[2]),
                         IF Len(parts) = 4 THEN Append(parts, None) ELSE parts)]

StripEach(parts) == [i \in 1..Len(parts) |-> Strip(parts[i])]

\* ParseStripped without the test for a leading digit
ParseStripped_any(line) == ParseParts(StripEach(Split(line, "|")))

\* lines 929-946 for the stripped line: skipped unless re.match(r"^\d+", line)
ParseStripped(line) ==
    IF line = <<>> \/ Head(line) \notin Digits THEN [ok |-> FALSE]
    ELSE ParseParts(StripEach(Split(line, "|")))

\* one line of the reply: the record it gives, or no record
ParseLine(ln) == ParseStripped(Strip(StripChars(Strip(ln), {"#"})))

\* dict.update: the entries of got replace or extend those of d
Update(d, got) ==
    [k \in DOMAIN d \cup DOMAIN got |-> IF k \in DOMAIN got THEN got[k] ELSE d[k]]

Put(d, k, v) == [x \in DOMAIN d \cup {k} |-> IF x = k THEN v ELSE d[x]]

EmptyDict == [k \in {} |-> 0]

\* PutParsed that files the record under its position in the reply
PutParsed_by_position(out, p) ==
    IF p.ok THEN Put(out, Cardinality(DOMAIN out) + 1, p.rec) ELSE out

\* out[rid] = {...} for a line that gave a record
PutParsed(out, p) == IF p.ok THEN Put(out, p.rec.id, p.rec) ELSE out

RECURSIVE ParseLines(_, _, _)
ParseLines(lines, i, out) ==
    IF i > Len(lines) THEN out
    ELSE ParseLines(lines, i + 1, PutParsed(out, ParseLine(lines[i])))

(***************************************************************************)
(* json.loads, for replies written with objects, strings without escapes,  *)
(* decimal numbers, true, false and null.  A value is [t, ...]; a parse is *)
(* [ok, v, i] with i the index after the value.                            *)
(***************************************************************************)
JsonFail == [ok |-> FALSE, v |-> [t |-> "null"], i |-> 0]
JsonOk(v, i) == [ok |-> TRUE, v |-> v, i |-> i]

\* the first index from i on that is past s or not in chars
SkipOver(s, i, chars) ==
    LET J == {j \in i..(Len(s) + 1) : j = Len(s) + 1 \/ s[j] \notin chars}
    IN  CHOOSE j \in J : \A k \in J : j <= k

SkipWs(s, i) == SkipOver(s, i, Whitespace)

At(s, i, p) == i + Len(p) - 1 <= Len(s) /\ SubSeq(s, i, i + Len(p) - 1) = p

JsonString(s, i) ==
    LET j == SkipOver(s, i + 1, {s[k] : k \in 1..Len(s)} \ {"\""})
    IN  IF j > Len(s) THEN JsonFail
        ELSE JsonOk([t |-> "str", s |-> SubSeq(s, i + 1, j - 1)], j + 1)

\* -?(0|[1-9]\d*)(\.\d+)?
IsJsonNumber(u) ==
    LET parts == Split(u, ".")
    IN  /\ Len(parts) <= 2
        /\ parts[1] # <<>> /\ AllDigits(parts[1])
        /\ Len(parts[1]) = 1 \/ parts[1][1] # "0"
        /\ Len(parts) = 2 => parts[2] # <<>> /\ AllDigits(parts[2])

JsonNumber(s, i) ==
    LET j == SkipOver(s, i, Digits \cup {"-", "."})
        txt == SubSeq(s, i, j - 1)
    IN  IF IsJsonNumber(IF Head(txt) = "-" THEN Tail(txt) ELSE txt)
        THEN JsonOk([t |-> "num", s |-> txt], j) ELSE JsonFail

RECURSIVE JsonValue(_, _)
RECURSIVE JsonMembers(_, _, _)

\* after "{" or ",": "key" : value, then "," or "}"
JsonMember(s, items, key, val) ==
    IF ~key.ok \/ ~val.ok THEN JsonFail
    ELSE IF At(s, SkipWs(s, val.i), <<",">>)
         THEN JsonMembers(s, SkipWs(s, SkipWs(s, val.i) + 1), Append(items, <<key.v.s, val.v>>))
    ELSE IF At(s, SkipWs(s, val.i), <<"}">>)
         THEN JsonOk([t |-> "obj", items |-> Append(items, <<key.v.s, val.v>>)],
                     SkipWs(s, val.i) + 1)
    ELSE JsonFail

JsonKeyed(s, items, key) ==
    IF key.ok /\ At(s, SkipWs(s, key.i), <<":">>)
    THEN JsonMember(s, items, key, JsonValue(s, SkipWs(s, SkipWs(s, key.i) + 1)))
    ELSE JsonFail

JsonMembers(s, i, items) ==
    IF At(s, i, <<"\"">>) THEN JsonKeyed(s, items, JsonString(s, i)) ELSE JsonFail

JsonValue(s, i) ==
    IF i > Len(s) THEN JsonFail
    ELSE IF s[i] = "{"
         THEN IF At(s, SkipWs(s, i + 1), <<"}">>)
              THEN JsonOk([t |-> "obj", items |-> <<>>], SkipWs(s, i + 1) + 1)
              ELSE JsonMembers(s, SkipWs(s, i + 1), <<>>)
    ELSE IF s[i] = "\"" THEN JsonString(s, i)
    ELSE IF s[i] \in Digits \cup {"-"} THEN JsonNumber(s, i)
    ELSE IF At(s, i, <<"t","r","u","e">>) THEN JsonOk([t |-> "true"], i + 4)
    ELSE IF At(s, i, <<"f","a","l","s","e">>) THEN JsonOk([t |-> "false"], i + 5)
    ELSE IF At(s, i, <<"n","u","l","l">>) THEN JsonOk([t |-> "null"], i + 4)
    ELSE JsonFail

\* json.loads(raw): the value, or [ok |-> FALSE] for the JSONDecodeError
json_loads(raw) ==
    LET r == JsonValue(raw, SkipWs(raw, 1))
    IN  IF r.ok /\ SkipWs(raw, r.i) = Len(raw) + 1 THEN r ELSE JsonFail

\* v.get(key, default) of a dict: the last member with the key
Get(v, key, default) ==
    LET at == {k \in 1..Len(v.items) : v.items[k][1] = key}
    IN  IF at = {} THEN default
        ELSE v.items[CHOOSE k \in at : \A m \in at : m <= k][2]

\* bool(x)
Truthy(x) ==
    CASE x.t = "str" -> x.s # <<>>
      [] x.t = "num" -> ParseFloat(x.s).v # 0
      [] x.t = "true" -> TRUE
      [] x.t = "obj" -> x.items # <<>>
      [] OTHER -> FALSE

\* str(x) of a string, a number, True, False, None
PyStr(x) ==
    CASE x.t = "str" -> x.s
      [] x.t = "num" -> x.s
      [] x.t = "true" -> <<"T","r","u","e">>
      [] x.t = "false" -> <<"F","a","l","s","e">>
      [] OTHER -> <<"N","o","n","e">>

\* lines 912-922 for one item of j; (x or "").strip() raises on a truthy
\* value that is not a str, v.get on a value that is not a dict
JsonRecord(k, v) ==
    LET L == Get(v, <<"L">>, [t |-> "str", s |-> <<>>])
        S == Get(v, <<"S">>, [t |-> "num", s |-> <<"0">>])
        Z == Get(v, <<"Z">>, [t |-> "num", s |-> <<"0">>])
        sarcasm == Get(v, <<"s","a","r","c","a","s","m">>, [t |-> "num", s |-> <<"0">>])
        E == Get(v, <<"E">>, [t |-> "str", s |-> <<>>])
        lab == _norm_label(IF Truthy(L) THEN L.s ELSE <<>>)
    IN  IF Truthy(L) /\ L.t # "str" THEN [ok |-> FALSE]
        ELSE [ok |-> TRUE,
              rec |-> [id |-> IntOf(OnlyDigits(k)),
                       llm_label |-> lab,
                       llm_score |-> _norm_score_val(PyStr(S), lab),
                       llm_sarcasm |-> Truthy(Z) \/
                                       (sarcasm.t # "null" /\ _norm_bool(PyStr(sarcasm))),
                       llm_ethics |-> IF Truthy(E) THEN _norm_ethics(PyStr(E))
                                      ELSE <<None>>]]

\* the loop of lines 911-922: [ok, out], ok FALSE when an item raised; out
\* keeps the records of the items before it
RECURSIVE JsonItems(_, _, _)
JsonItems(items, k, out) ==
    IF k > Len(items) THEN [ok |-> TRUE, out |-> out]
    ELSE IF items[k][2].t # "obj" \/ ~JsonRecord(items[k][1], items[k][2]).ok
         THEN [ok |-> FALSE, out |-> out]
    ELSE JsonItems(items, k + 1, PutParsed(out, JsonRecord(items[k][1], items[k][2])))

\* lines 909-925: the try block; the keys of one reply object are distinct
JsonBranch(j) ==
    IF j.ok THEN JsonItems(j.v.items, 1, EmptyDict) ELSE [ok |-> FALSE, out |-> EmptyDict]

LinesOrJson(raw, lines) ==
    IF StartsWith(raw, <<"{">>) /\ JsonBranch(json_loads(raw)).ok
    THEN JsonBranch(json_loads(raw)).out
    ELSE ParseLines(lines, 1,
                    IF StartsWith(raw, <<"{">>) THEN JsonBranch(json_loads(raw)).out
                    ELSE EmptyDict)

\* the JSON object when raw starts with "{" and no item raises, else the
\* pipe-delimited lines, read into the out the try block left
_parse_block(text) == LinesOrJson(Strip(text), SplitLines(Strip(text)))

(***************************************************************************)
(* The inputs the model draws from.                                        *)
(***************************************************************************)
Ids == 1..MaxRows

\* "a" * 1500 and "b" * 1456, whose signature is all decimal digits
Texts == {<<Run("a", 1500)>>, <<Run("b", 1456)>>}

InputRows == [id : Ids, text : Texts]

\* the frames df a caller passes: up to MaxRows rows; an id may be on more
\* than one row
Frames == UNION {[1..n -> InputRows] : n \in 0..MaxRows}

\* the "Max prompt chars" of the UI: the least it accepts, and its default
PromptChars == {2000, 120000}

model == "qwen/qwen3-coder:free"

\* what _openrouter_request may return
Reply_empty == <<>>
Reply_http == <<"H", "T", "T", "P", "_", "4", "0", "1">>
Reply_1 == <<"1", "|", "p", "o", "s", "|", "0", ".", "8", "|", "0", "|", "n", "o", "n", "e">>
Reply_2 == <<"2", "|", "n", "e", "g", "a", "t", "i", "v", "e", "|", "-", "0", ".", "6", "|", "1", "|", "b", "i", "a", "s">>
Reply_21 == <<"2", "|", "n", "e", "g", "a", "t", "i", "v", "e", "|", "-", "0", ".", "6", "|", "1", "|", "b", "i", "a", "s", "\n", "1", "|", "p", "o", "s", "|", "0", ".", "8", "|", "0", "|", "n", "o", "n", "e">>
Reply_9 == <<"9", "|", "n", "e", "u", "t", "r", "a", "l", "|", "0", ".", "3", "|", "0", "|", "n", "o", "n", "e">>

Replies == {Reply_empty, Reply_http, Reply_1, Reply_2, Reply_21, Reply_9}

\* _parse_block(reply) for each of them
Parsed == [reply \in Replies |-> _parse_block(reply)]

(***************************************************************************)
(* State.                                                                  *)
(***************************************************************************)
VARIABLES
    file,        \* the ledger file at out_path
    pc,          \* where the process is: idle, inside run_llm_batch, or ended
    runs,        \* invocations of run_llm_batch so far
    df,          \* the input frame of the current invocation
    max_prompt_chars,
    prior,       \* the ledger as read_csv loaded it
    todo,        \* the rows to label: [id, text, cache_sig]
    chunks,      \* _build_chunks(todo)
    idx,         \* the chunk being processed, from 1
    parsed,      \* the chunk's records so far, by id
    missing,     \* the chunk's ids not in parsed
    sub_chunks,  \* the repair requests planned for the chunk
    sub_i,       \* the next of sub_chunks
    passes,      \* repair requests made for the chunk
    rows,        \* [parsed[rid] for rid in ids], after the defaults
    df_out,      \* the ledger being built
    ret,         \* the table the invocation returned
    sent,        \* the requests of this invocation: the lines each carried
    emitted,     \* what the progress callback got, call by call
    supplied,    \* the ids the replies for this chunk gave a record for
    persisted,   \* the lines of the chunks whose write has completed
    file0,       \* the file when the invocation began
    file_old,    \* the file before the write in progress opened it
    last,        \* how the previous invocation ended
    reply_text,  \* the text _parse_block is given, when it is studied alone
    now,         \* time.monotonic(), in ticks of 0.05 s
    _LLM_RATELIMIT_TIMES,   \* the limiter's deque of timestamps
    rpm,         \* requests per minute, as the caller passes it
    npc,         \* where _request is: idle, or in _openrouter_request's loop
    n_calls,     \* calls of _llm_rate_limit_wait so far, by the invocation if any
    entered,     \* the last limiter call: its clock reading and the deque it kept
    recorded,    \* every timestamp the limiter has appended
    attempt,     \* POSTs of the current _openrouter_request call
    posts,       \* the time of every POST
    last_response,   \* the response to the latest POST and the sleep after it
    result       \* what _openrouter_request returned

run_vars == <<prior, todo, chunks, idx>>
chunk_vars == <<parsed, missing, sub_chunks, sub_i, passes, rows, supplied>>
vars == <<file, pc, runs, df, max_prompt_chars, prior, todo, chunks, idx, parsed,
          missing, sub_chunks, sub_i, passes, rows, df_out, ret, sent, emitted,
          supplied, persisted, file0, file_old, last, reply_text, now,
          _LLM_RATELIMIT_TIMES, rpm, npc, n_calls, entered, recorded, attempt, posts,
          last_response, result>>

main_vars == <<file, pc, runs, df, max_prompt_chars, prior, todo, chunks, idx, parsed,
               missing, sub_chunks, sub_i, passes, rows, df_out, ret, sent, emitted,
               supplied, persisted, file0, file_old, last>>

net_vars == <<now, _LLM_RATELIMIT_TIMES, rpm, npc, n_calls, entered, recorded, attempt,
              posts, last_response, result>>

\* the variables run_llm_batch's own steps leave alone
aux_vars == <<reply_text, net_vars>>

\* the same but the count of limiter calls, which _request adds to
call_vars == <<reply_text, now, _LLM_RATELIMIT_TIMES, rpm, npc, entered, recorded, attempt,
               posts, last_response, result>>

Running == {"request", "repair", "merge", "writing", "emit"}
Ended == {"returned", "raised", "killed"}

NoChunk ==
    /\ parsed' = EmptyDict
    /\ missing' = <<>>
    /\ sub_chunks' = <<>>
    /\ sub_i' = 0
    /\ passes' = 0
    /\ rows' = <<>>
    /\ supplied' = {}

\* an invocation that ends before it has loaded the ledger
NoRun ==
    /\ prior' = <<>>
    /\ todo' = <<>>
    /\ chunks' = <<>>
    /\ idx' = 0
    /\ df_out' = <<>>

\* nothing has been invoked: the variables no invocation has touched
Fresh ==
    /\ file = NoFile
    /\ runs = 0
    /\ prior = <<>>
    /\ idx = 0
    /\ missing = <<>>
    /\ sub_chunks = <<>>
    /\ sub_i = 0
    /\ passes = 0
    /\ rows = <<>>
    /\ df_out = <<>>
    /\ ret = <<>>
    /\ sent = <<>>
    /\ emitted = <<>>
    /\ supplied = {}
    /\ persisted = {}
    /\ file0 = NoFile
    /\ file_old = NoFile
    /\ last = [end |-> "none", df |-> <<>>, ret |-> {}, persisted |-> {}]

NoReply == reply_text = <<>>

NoResponse == [kind |-> "none", status |-> 0, body |-> <<>>, slept |-> 0]

\* no request has been made
NoCalls ==
    /\ now = 0
    /\ _LLM_RATELIMIT_TIMES = <<>>
    /\ npc = "idle"
    /\ n_calls = 0
    /\ entered = [now |-> 0, times |-> <<>>]
    /\ recorded = <<>>
    /\ attempt = 0
    /\ posts = <<>>
    /\ last_response = NoResponse
    /\ result = <<>>

\* rpm is the UI's default
NoNet == NoCalls /\ rpm = 20

\* no invocation of run_llm_batch: the state the helpers are studied from
Idle ==
    /\ Fresh
    /\ pc = "idle"
    /\ df = <<>>
    /\ max_prompt_chars = 2000
    /\ todo = <<>>
    /\ chunks = <<>>
    /\ parsed = EmptyDict
    /\ NoReply

Init ==
    /\ Fresh
    /\ pc = "idle"
    /\ df = <<>>
    /\ max_prompt_chars \in PromptChars
    /\ todo = <<>>
    /\ chunks = <<>>
    /\ parsed = EmptyDict
    /\ NoReply
    /\ NoNet

(***************************************************************************)
(* The steps of run_llm_batch that touch no file and send nothing.         *)
(***************************************************************************)
\* the elements of s at the indices in S, in order
RECURSIVE KeepIdx(_, _, _)
KeepIdx(s, S, i) ==
    IF i > Len(s) THEN <<>>
    ELSE (IF i \in S THEN <<s[i]>> ELSE <<>>) \o KeepIdx(s, S, i + 1)

RECURSIVE Flatten(_)
Flatten(ss) == IF ss = <<>> THEN <<>> ELSE Head(ss) \o Flatten(Tail(ss))

\* base: the frame with its cache_sig column
Base(frame) ==
    [i \in 1..Len(frame) |->
        [id |-> frame[i].id, text |-> frame[i].text, cache_sig |-> _hash_sig(frame[i].text)]]

\* prior = pd.read_csv(out_path) if os.path.exists(out_path) else pd.DataFrame()
LoadPrior(f) == IF f.exists THEN read_csv(f) ELSE [raised |-> FALSE, rows |-> <<>>]

\* Todo with the diff keyed on the id alone
Todo_by_id(base, have) ==
    KeepIdx(base, {i \in 1..Len(base) : base[i].id \notin {k[1] : k \in have}}, 1)

\* todo = base.loc[mask], mask[i] = (id, cache_sig) not in have
Todo(base, have) ==
    KeepIdx(base, {i \in 1..Len(base) : <<base[i].id, base[i].cache_sig>> \notin have}, 1)

\* [rid for rid in ids if rid not in parsed]
Missing(ids, d) == KeepIdx(ids, {i \in 1..Len(ids) : ids[i] \notin DOMAIN d}, 1)

\* Loc that returns every row of the frame
Loc_all(frame, labels) == frame

\* todo.set_index("id").loc[missing].reset_index(): for each label of
\* missing in turn, every row of todo with that id
Loc(frame, labels) ==
    Flatten([k \in 1..Len(labels) |->
                KeepIdx(frame, {i \in 1..Len(frame) : frame[i].id = labels[k]}, 1)])

\* DefaultRecord with another label
DefaultRecord_unknown(rid) ==
    [id |-> rid, llm_label |-> "unknown", llm_score |-> 0, llm_sarcasm |-> FALSE,
     llm_ethics |-> <<None>>]

DefaultRecord(rid) ==
    [id |-> rid, llm_label |-> "neutral", llm_score |-> 0, llm_sarcasm |-> FALSE,
     llm_ethics |-> <<None>>]

\* for rid in ids: if rid not in parsed: parsed[rid] = default
WithDefaults(d, ids) ==
    [k \in DOMAIN d \cup Range(ids) |-> IF k \in DOMAIN d THEN d[k] ELSE DefaultRecord(k)]

\* sig_map = {int(r.id): str(r.cache_sig) for r in todo}: the last row of an id wins
sig_map(frame, rid) ==
    LET at == {i \in 1..Len(frame) : frame[i].id = rid}
    IN  frame[CHOOSE i \in at : \A j \in at : j <= i].cache_sig

\* chunk_df: rows with the cache_sig column
ChunkDf(rs, frame) ==
    [i \in 1..Len(rs) |->
        [id |-> rs[i].id, llm_label |-> rs[i].llm_label, llm_score |-> rs[i].llm_score,
         llm_sarcasm |-> rs[i].llm_sarcasm, llm_ethics |-> rs[i].llm_ethics,
         cache_sig |-> sig_map(frame, rs[i].id)]]

\* the rows of chunk_df appended to df_out: all of them when df_out is
\* empty, else those whose key is not in df_out
NewRows(out, chunk_df) ==
    IF out = <<>> THEN chunk_df
    ELSE KeepIdx(chunk_df,
                 {i \in 1..Len(chunk_df) :
                     <<chunk_df[i].id, chunk_df[i].cache_sig>> \notin Keys(out)}, 1)

\* df_out["model"] = model; the seven columns returned
Returned(out) ==
    [i \in 1..Len(out) |->
        [id |-> out[i].id, llm_label |-> out[i].llm_label, llm_score |-> out[i].llm_score,
         llm_sarcasm |-> out[i].llm_sarcasm, llm_ethics |-> out[i].llm_ethics,
         cache_sig |-> out[i].cache_sig, model |-> model]]

\* the module's cache-hit counter: set to 0 at lines 648 and 2429 and
\* assigned nowhere else
_API_CACHE_HITS == 0

\* _emit(i, n): the dict handed to progress_cb, with planned_calls = n at
\* both call sites; its "made" and "debug" entries, the POST counter and the
\* debug buffer of the client, are left out
_emit(i, n) == [planned |-> n, cache |-> _API_CACHE_HITS, chunk |-> <<i, n>>]

(***************************************************************************)
(* Actions.                                                                *)
(***************************************************************************)
EndOf(p) == [end |-> p, df |-> df, ret |-> Range(ret), persisted |-> persisted]

\* lines 808-957: the caller invokes run_llm_batch; the function returns an
\* empty table for an empty frame, else loads the ledger and diffs, and then
\* raises, returns the ledger, or plans its chunks
Start ==
    /\ pc \in {"idle"} \cup Ended
    /\ runs < MaxRuns
    /\ \E frame \in Frames :
        LET load == LoadPrior(file)
            rest == Todo(Base(frame), Keys(load.rows))
            plan == _build_chunks(rest, max_prompt_chars)
        IN  /\ df' = frame
            /\ IF frame = <<>>
               THEN /\ pc' = "returned"
                    /\ ret' = <<>>
                    /\ emitted' = <<>>
                    /\ NoRun
               ELSE IF load.raised
               THEN /\ pc' = "raised"
                    /\ ret' = <<>>
                    /\ emitted' = <<>>
                    /\ NoRun
               ELSE /\ prior' = load.rows
                    /\ df_out' = load.rows
                    /\ todo' = rest
                    /\ chunks' = plan
                    /\ IF rest = <<>>
                       THEN /\ pc' = "returned"
                            /\ ret' = Returned(load.rows)
                            /\ emitted' = <<>>
                            /\ idx' = 0
                       ELSE /\ pc' = "request"
                            /\ ret' = <<>>
                            /\ emitted' = <<_emit(0, Len(plan))>>
                            /\ idx' = 1
    /\ runs' = runs + 1
    /\ sent' = <<>>
    /\ persisted' = {}
    /\ file0' = file
    /\ file_old' = file
    /\ last' = EndOf(pc)
    /\ UNCHANGED <<file, max_prompt_chars, chunk_vars>>
    /\ n_calls' = 0
    /\ UNCHANGED call_vars

\* lines 968-970 with _request, 960-965: the chunk's first request, behind
\* one call of the limiter (line 961)
Request ==
    /\ pc = "request"
    /\ \E reply \in Replies :
        LET got == Parsed[reply]
            ids == chunks[idx].ids
            miss == Missing(ids, got)
        IN  /\ parsed' = got
            /\ supplied' = DOMAIN got
            /\ missing' = miss
            /\ sent' = Append(sent, chunks[idx].lines)
            /\ passes' = 0
            /\ IF miss # <<>>
               THEN /\ sub_chunks' = _build_chunks(Loc(todo, miss), max_prompt_chars)
                    /\ sub_i' = 1
                    /\ pc' = "repair"
               ELSE /\ sub_chunks' = <<>>
                    /\ sub_i' = 0
                    /\ pc' = "merge"
    /\ UNCHANGED <<file, runs, df, max_prompt_chars, run_vars, rows, df_out, ret,
                   emitted, persisted, file0, file_old, last>>
    /\ n_calls' = n_calls + 1
    /\ UNCHANGED call_vars

\* lines 974-981: one iteration of the loop over sub_chunks
Repair ==
    /\ pc = "repair"
    /\ \E reply \in Replies :
        LET more == Parsed[reply]
            merged == Update(parsed, more)
            still == Missing(chunks[idx].ids, merged)
        IN  /\ parsed' = merged
            /\ supplied' = supplied \cup DOMAIN more
            /\ missing' = still
            /\ passes' = passes + 1
            /\ sent' = Append(sent, sub_chunks[sub_i].lines)
            /\ sub_i' = sub_i + 1
            /\ pc' = IF sub_i + 1 <= Len(sub_chunks) /\ still # <<>> /\ passes + 1 < 2
                     THEN "repair" ELSE "merge"
    /\ UNCHANGED <<file, runs, df, max_prompt_chars, run_vars, sub_chunks, rows, df_out,
                   ret, emitted, persisted, file0, file_old, last>>
    /\ n_calls' = n_calls + 1
    /\ UNCHANGED call_vars

\* lines 983-1000 up to the open(path, "w") inside to_csv, which truncates
Merge ==
    /\ pc = "merge"
    /\ LET ids == chunks[idx].ids
           d == WithDefaults(parsed, ids)
           rs == [i \in 1..Len(ids) |-> d[ids[i]]]
       IN  /\ rows' = rs
           /\ df_out' = df_out \o NewRows(df_out, ChunkDf(rs, todo))
    /\ file_old' = file
    /\ file' = ZeroBytes
    /\ pc' = "writing"
    /\ UNCHANGED <<runs, df, max_prompt_chars, run_vars, parsed, missing, sub_chunks,
                   sub_i, passes, ret, sent, emitted, supplied, persisted, file0, last>>
    /\ UNCHANGED aux_vars

\* lines 825-827: to_csv writes the sorted frame and closes the file
Write ==
    /\ pc = "writing"
    /\ file' = CsvImage(df_out)
    /\ persisted' = persisted \cup Range(chunks[idx].lines)
    /\ pc' = "emit"
    /\ UNCHANGED <<runs, df, max_prompt_chars, run_vars, chunk_vars, df_out, ret, sent,
                   emitted, file0, file_old, last>>
    /\ UNCHANGED aux_vars

\* line 1001, and the loop's next iteration or lines 1003-1004
Emit ==
    /\ pc = "emit"
    /\ emitted' = Append(emitted, _emit(idx, Len(chunks)))
    /\ IF idx < Len(chunks)
       THEN /\ idx' = idx + 1
            /\ pc' = "request"
            /\ ret' = ret
       ELSE /\ idx' = idx
            /\ pc' = "returned"
            /\ ret' = Returned(df_out)
    /\ NoChunk
    /\ file_old' = file
    /\ UNCHANGED <<file, runs, df, max_prompt_chars, prior, todo, chunks, df_out, sent,
                   persisted, file0, last>>
    /\ UNCHANGED aux_vars

\* the process is gone: nothing of the invocation is left but the file
Gone ==
    /\ pc' = "killed"
    /\ prior' = <<>>
    /\ todo' = <<>>
    /\ chunks' = <<>>
    /\ idx' = 0
    /\ NoChunk
    /\ ret' = <<>>
    /\ sent' = <<>>
    /\ emitted' = <<>>
    /\ n_calls' = 0

\* the process is terminated while no write is in progress
Kill ==
    /\ pc \in Running \ {"writing"}
    /\ Gone
    /\ df_out' = <<>>
    /\ file_old' = file
    /\ UNCHANGED <<file, runs, df, max_prompt_chars, persisted, file0, last>>
    /\ UNCHANGED call_vars

\* the process is terminated inside to_csv: the file keeps what was flushed,
\* nothing, or the header and the first k rows (df_out and file_old stay, as
\* the record of what was being written over what)
KillWriting ==
    /\ pc = "writing"
    /\ \E k \in 0..Len(df_out) : file' \in {ZeroBytes, CsvPrefix(df_out, k)}
    /\ Gone
    /\ UNCHANGED <<runs, df, max_prompt_chars, df_out, persisted, file0, file_old, last>>
    /\ UNCHANGED call_vars

Next == Start \/ Request \/ Repair \/ Merge \/ Write \/ Emit \/ Kill \/ KillWriting

Spec == Init /\ [][Next]_vars

(***************************************************************************)
(* The reply parser alone: _parse_block applied to one reply line          *)
(* id|label|score|sarcasm|ethics, for the label and score texts a remote   *)
(* service may write.                                                      *)
(***************************************************************************)
LabelTexts ==
    {<<"p", "o", "s">>,
     <<"p", "o", "s", "i", "t", "i", "v", "e">>,
     <<"P", "O", "S", "I", "T", "I", "V", "E">>,
     <<"n", "e", "g">>,
     <<"n", "e", "g", "a", "t", "i", "v", "e">>,
     <<"n", "e", "u", "t", "r", "a", "l">>,
     <<"n">>,
     <<"-">>,
     <<"+">>,
     <<"m", "i", "x", "e", "d">>}

ScoreTexts ==
    {<<"0", ".", "8">>,
     <<"-", "0", ".", "6">>,
     <<"1", ".", "5">>,
     <<"-", "2">>,
     <<"0">>,
     <<"n", "a", "n">>,
     <<"h", "i", "g", "h">>}

SarcasmTexts == {<<"0">>, <<"1">>}

EthicsTexts == {<<"n", "o", "n", "e">>, <<"b", "i", "a", "s">>}

\* "|".join(cells)
RECURSIVE JoinPipe(_)
JoinPipe(cells) ==
    IF Len(cells) = 1 THEN cells[1] ELSE cells[1] \o <<"|">> \o JoinPipe(Tail(cells))

ParserReplies ==
    {JoinPipe(<<i, l, sc, z, e>>) :
        i \in {<<"1">>, <<"2">>}, l \in LabelTexts, sc \in ScoreTexts,
        z \in SarcasmTexts, e \in EthicsTexts}

ParserInit ==
    /\ Fresh
    /\ pc = "idle"
    /\ df = <<>>
    /\ max_prompt_chars = 2000
    /\ todo = <<>>
    /\ chunks = <<>>
    /\ parsed = EmptyDict
    /\ reply_text \in ParserReplies
    /\ NoNet

\* line 965: return _parse_block(reply)
Parse ==
    /\ pc = "idle"
    /\ pc' = "parsed"
    /\ parsed' = _parse_block(reply_text)
    /\ UNCHANGED <<file, runs, df, max_prompt_chars, prior, todo, chunks, idx, missing,
                   sub_chunks, sub_i, passes, rows, df_out, ret, sent, emitted, supplied,
                   persisted, file0, file_old, last, reply_text>>
    /\ UNCHANGED net_vars

ParserNext == Parse

ParserSpec == ParserInit /\ [][ParserNext]_vars

(***************************************************************************)
(* The chunker alone: _build_chunks applied to the todo rows of a run that *)
(* found no ledger, for texts from empty to longer than the row cap.       *)
(***************************************************************************)
MaxChunkRows == 3

ChunkTexts == {<<>>, <<Run("a", 990)>>, <<Run("a", 1500)>>, <<Run("a", 4500)>>}

ChunkFrames ==
    UNION {[1..n -> [id : 1..MaxChunkRows, text : ChunkTexts]] : n \in 0..MaxChunkRows}

\* the least the UI accepts, one step of its spinner above it, and its default
ChunkPromptChars == {2000, 3000, 120000}

ChunkInit ==
    /\ Fresh
    /\ pc = "idle"
    /\ df \in ChunkFrames
    /\ max_prompt_chars \in ChunkPromptChars
    /\ todo = Base(df)
    /\ chunks = <<>>
    /\ parsed = EmptyDict
    /\ NoReply
    /\ NoNet

\* line 956: chunks = _build_chunks(todo)
Plan ==
    /\ pc = "idle"
    /\ pc' = "planned"
    /\ chunks' = _build_chunks(todo, max_prompt_chars)
    /\ UNCHANGED <<file, runs, df, max_prompt_chars, prior, todo, idx, parsed, missing,
                   sub_chunks, sub_i, passes, rows, df_out, ret, sent, emitted, supplied,
                   persisted, file0, file_old, last, reply_text>>
    /\ UNCHANGED net_vars

ChunkNext == Plan

ChunkSpec == ChunkInit /\ [][ChunkNext]_vars

(***************************************************************************)
(* The rate limiter alone: _llm_rate_limit_wait called again and again.    *)
(* Time is counted in ticks of 0.05 s.                                     *)
(***************************************************************************)
MaxCalls == 4

window == 1200      \* 60.0 s
Slack == 1          \* the + 0.05 s of the sleep

\* while times and now - times[0] > window: times.popleft()
RECURSIVE Purge(_, _)
Purge(times, t) ==
    IF times # <<>> /\ t - Head(times) > window THEN Purge(Tail(times), t) ELSE times

\* sleep_s with no sleep at all
sleep_s_none(times, t, r) == 0

\* lines 661-664: the seconds slept, given the purged deque
sleep_s(times, t, r) ==
    IF Len(times) >= Max(1, r) THEN Max(0, window - (t - Head(times)) + Slack) ELSE 0

\* time.sleep returns on time or a tick late
Late == {0, 1}

\* lines 655-665, entered when the clock reads t
_llm_rate_limit_wait(t) ==
    \E late \in Late :
        /\ entered' = [now |-> t, times |-> Purge(_LLM_RATELIMIT_TIMES, t)]
        /\ now' = t + sleep_s(Purge(_LLM_RATELIMIT_TIMES, t), t, rpm) + late
        /\ _LLM_RATELIMIT_TIMES' = Append(Purge(_LLM_RATELIMIT_TIMES, t), now')
        /\ recorded' = Append(recorded, now')
        /\ n_calls' = n_calls + 1

\* the time the caller lets pass between two calls
Gaps == {0, 1, 600, 1199, 1200, 1201}

Rpms == {1, 2, 3}

LimiterInit == Idle /\ NoCalls /\ rpm \in Rpms

Wait ==
    /\ n_calls < MaxCalls
    /\ \E gap \in Gaps : _llm_rate_limit_wait(now + gap)
    /\ UNCHANGED <<rpm, npc, attempt, posts, last_response, result>>
    /\ UNCHANGED <<main_vars, reply_text>>

LimiterNext == Wait

LimiterSpec == LimiterInit /\ [][LimiterNext]_vars

(***************************************************************************)
(* _request: the limiter, then _openrouter_request with its retry loop.    *)
(***************************************************************************)
MaxRequests == 2

max_attempts == 5

Retryable == {"429", "5xx", "neterr"}

Body_denied == <<"d", "e", "n", "i", "e", "d">>

\* what one POST may meet: a completion, a 4xx with or without a body, a 429
\* with Retry-After 0 or with no header (3.0 s), a 503, a network error
Responses ==
    {[kind |-> "2xx", status |-> 200, body |-> Reply_1, retry_after |-> 0],
     [kind |-> "4xx", status |-> 401, body |-> <<>>, retry_after |-> 0],
     [kind |-> "4xx", status |-> 401, body |-> Body_denied, retry_after |-> 0],
     [kind |-> "429", status |-> 429, body |-> <<>>, retry_after |-> 0],
     [kind |-> "429", status |-> 429, body |-> <<>>, retry_after |-> 3],
     [kind |-> "5xx", status |-> 503, body |-> <<>>, retry_after |-> 3],
     [kind |-> "neterr", status |-> 0, body |-> <<>>, retry_after |-> 0]}

\* the ticks slept after the response to attempt k: min(12.0, 1.5 * k),
\* max(2.0, retry_after), max(2.0, min(10.0, retry_after)), or none
SleepAfter(resp, k) ==
    CASE resp.kind = "neterr" -> Min(240, 30 * k)
      [] resp.kind = "429" -> Max(40, 20 * resp.retry_after)
      [] resp.kind = "5xx" -> Max(40, Min(200, 20 * resp.retry_after))
      [] OTHER -> 0

\* str(n) for n >= 0
RECURSIVE Str(_)
Str(n) ==
    IF n < 10 THEN <<(<<"0", "1", "2", "3", "4", "5", "6", "7", "8", "9">>)[n + 1]>>
    ELSE Str(n \div 10) \o Str(n % 10)

\* the string a response ends the call with: the completion, or
\* r.text or f"HTTP_{r.status_code}"
Returns(resp) ==
    IF resp.kind = "4xx" /\ resp.body = <<>>
    THEN <<"H", "T", "T", "P", "_">> \o Str(resp.status)
    ELSE resp.body

\* Ends allowing one attempt more
Ends_late(resp, k) == resp.kind \notin Retryable \/ k = max_attempts + 1

\* the call ends with attempt k: a return, or the loop's last iteration
Ends(resp, k) == resp.kind \notin Retryable \/ k = max_attempts

\* the time a POST takes, in ticks
PostTicks == {1}

NetGaps == {1, 1201}

NetInit == Idle /\ NoCalls /\ rpm \in {1, 2}

\* lines 960-964: _request waits for the limiter and calls the client
RequestBegin ==
    /\ npc = "idle"
    /\ n_calls < MaxRequests
    /\ \E gap \in NetGaps : _llm_rate_limit_wait(now + gap)
    /\ npc' = "post"
    /\ attempt' = 0
    /\ last_response' = NoResponse
    /\ result' = <<>>
    /\ UNCHANGED <<rpm, posts>>
    /\ UNCHANGED <<main_vars, reply_text>>

\* lines 695-722: one iteration of the loop of _openrouter_request
Post ==
    /\ npc = "post"
    /\ \E resp \in Responses, took \in PostTicks :
        /\ attempt' = attempt + 1
        /\ posts' = Append(posts, now)
        /\ now' = now + took + SleepAfter(resp, attempt + 1)
        /\ last_response' = [kind |-> resp.kind, status |-> resp.status, body |-> resp.body,
                             slept |-> SleepAfter(resp, attempt + 1)]
        /\ npc' = IF Ends(resp, attempt + 1) THEN "idle" ELSE "post"
        /\ result' = IF resp.kind \in Retryable THEN <<>> ELSE Returns(resp)
    /\ UNCHANGED <<_LLM_RATELIMIT_TIMES, rpm, n_calls, entered, recorded>>
    /\ UNCHANGED <<main_vars, reply_text>>

NetNext == RequestBegin \/ Post

NetSpec == NetInit /\ [][NetNext]_vars

(***************************************************************************)
(* The signature alone: base["cache_sig"] for frames whose texts write the *)
(* same words with different line breaks and outer whitespace.             *)
(***************************************************************************)
SigTexts ==
    {<<Run("x", 1), Run(" ", 1), Run("y", 1)>>,
     <<Run("x", 1), Run("\n", 1), Run("y", 1)>>,
     <<Run("x", 1), Run("\r", 1), Run("y", 1)>>,
     <<Run("x", 1), Run("\r", 1), Run("\n", 1), Run("y", 1)>>,
     <<Run(" ", 1), Run("x", 1), Run(" ", 1), Run("y", 1)>>,
     <<Run("x", 1), Run(" ", 1), Run("y", 1), Run("\n", 1)>>,
     <<Run("x", 1), Run(" ", 2), Run("y", 1)>>}

SigFrames == [1..2 -> [id : Ids, text : SigTexts]]

SigInit ==
    /\ Fresh
    /\ pc = "idle"
    /\ df \in SigFrames
    /\ max_prompt_chars = 2000
    /\ todo = <<>>
    /\ chunks = <<>>
    /\ parsed = EmptyDict
    /\ NoReply
    /\ NoNet

\* lines 829-850 with no ledger: every row, with its cache_sig, is todo
Sign ==
    /\ pc = "idle"
    /\ pc' = "signed"
    /\ todo' = Base(df)
    /\ UNCHANGED <<file, runs, df, max_prompt_chars, prior, chunks, idx, parsed, missing,
                   sub_chunks, sub_i, passes, rows, df_out, ret, sent, emitted, supplied,
                   persisted, file0, file_old, last, reply_text>>
    /\ UNCHANGED net_vars

SigNext == Sign

SigSpec == SigInit /\ [][SigNext]_vars

(***************************************************************************)
(* One chunk and its reply: lines 968-969 and 984-988 for a frame of two   *)
(* ids in one chunk and a reply with one line for each id, in either order.*)
(***************************************************************************)
\* the lines id|label|score|sarcasm|ethics the system message asks for
ReplyLines(i) ==
    {JoinPipe(<<i, l, sc, z, e>>) :
        l \in {<<"p","o","s","i","t","i","v","e">>, <<"n","e","g","a","t","i","v","e">>},
        sc \in {<<"0",".","8">>, <<"-","0",".","6">>, <<"0">>},
        z \in SarcasmTexts, e \in EthicsTexts}

TwoLineReplies ==
    {a \o <<"\n">> \o b : a \in ReplyLines(<<"1">>), b \in ReplyLines(<<"2">>)}
    \cup {b \o <<"\n">> \o a : a \in ReplyLines(<<"1">>), b \in ReplyLines(<<"2">>)}

TwoIdFrames == {f \in [1..2 -> [id : Ids, text : {<<Run("a", 990)>>}]] : f[1].id # f[2].id}

ReplyInit ==
    /\ Fresh
    /\ pc = "idle"
    /\ df \in TwoIdFrames
    /\ max_prompt_chars = 120000
    /\ todo = Base(df)
    /\ chunks = _build_chunks(Base(df), 120000)
    /\ parsed = EmptyDict
    /\ reply_text \in TwoLineReplies
    /\ NoNet

\* lines 968-969 and 984-988 for the first chunk: parsed, missing, then rows
Answer ==
    /\ pc = "idle"
    /\ pc' = "answered"
    /\ idx' = 1
    /\ parsed' = _parse_block(reply_text)
    /\ supplied' = DOMAIN parsed'
    /\ missing' = Missing(chunks[1].ids, parsed')
    /\ rows' = [i \in 1..Len(chunks[1].ids) |->
                   WithDefaults(parsed', chunks[1].ids)[chunks[1].ids[i]]]
    /\ UNCHANGED <<file, runs, df, max_prompt_chars, prior, todo, chunks, sub_chunks,
                   sub_i, passes, df_out, ret, sent, emitted, persisted, file0,
                   file_old, last, reply_text>>
    /\ UNCHANGED net_vars

ReplySpec == ReplyInit /\ [][Answer]_vars

(***************************************************************************)
(* The reply parser on the sarcasm field: _parse_block applied to one      *)
(* record in either accepted format, the pipe-delimited line and the JSON  *)
(* object {"id": {"L", "S", "Z", "E"}}, for the flags a service may write.  *)
(***************************************************************************)
FlagTexts ==
    {<<"1">>, <<"y">>, <<"y","e","s">>, <<"t","r","u","e">>, <<"Y","E","S">>,
     <<"T","r","u","e">>, <<"0">>, <<"n">>, <<"n","o">>, <<"f","a","l","s","e">>,
     <<"2">>, <<"N","O">>}

Quoted(t) == <<"\"">> \o t \o <<"\"">>

\* the flag as a JSON value: a string, or the bare 1, 0, true, false
JsonFlags ==
    {Quoted(t) : t \in FlagTexts}
    \cup {<<"1">>, <<"0">>, <<"t","r","u","e">>, <<"f","a","l","s","e">>}

JsonObjectReply(i, l, sc, z, e) ==
    <<"{">> \o Quoted(i) \o <<":", "{">> \o Quoted(<<"L">>) \o <<":">> \o Quoted(l)
    \o <<",">> \o Quoted(<<"S">>) \o <<":">> \o sc
    \o <<",">> \o Quoted(<<"Z">>) \o <<":">> \o z
    \o <<",">> \o Quoted(<<"E">>) \o <<":">> \o Quoted(e) \o <<"}", "}">>

FlagReplies ==
    {JoinPipe(<<i, l, <<"0",".","8">>, z, None>>) :
        i \in {<<"1">>, <<"2">>}, l \in {<<"p","o","s">>, <<"n","e","g">>, <<"n">>},
        z \in FlagTexts}
    \cup {JsonObjectReply(i, l, <<"0",".","8">>, z, None) :
        i \in {<<"1">>, <<"2">>}, l \in {<<"p","o","s">>, <<"n","e","g">>, <<"n">>},
        z \in JsonFlags}

FlagInit ==
    /\ Fresh
    /\ pc = "idle"
    /\ df = <<>>
    /\ max_prompt_chars = 2000
    /\ todo = <<>>
    /\ chunks = <<>>
    /\ parsed = EmptyDict
    /\ reply_text \in FlagReplies
    /\ NoNet

FlagSpec == FlagInit /\ [][Parse]_vars

(***************************************************************************)
(* The reply parser on the ethics field: _parse_block applied to one line  *)
(* id|label|score|sarcasm|ethics, for the tag lists a service may write    *)
(* with the full names or the one-letter codes of the vocabulary.          *)
(***************************************************************************)
\* the vocabulary of the tool, in sorted order
ETHICS_CODES_FULL ==
    <<<<"a","c","c","o","u","n","t","a","b","i","l","i","t","y">>,
      <<"b","i","a","s">>,
      <<"g","o","v","e","r","n","a","n","c","e">>,
      <<"j","o","b","_","d","i","s","p","l","a","c","e","m","e","n","t">>,
      <<"m","i","s","i","n","f","o","r","m","a","t","i","o","n">>,
      <<"n","o","n","e">>,
      <<"o","t","h","e","r">>,
      <<"p","r","i","v","a","c","y">>,
      <<"s","a","f","e","t","y">>,
      <<"t","r","a","n","s","p","a","r","e","n","c","y">>>>

ETH_SHORT2FULL(t) ==
    CASE t = <<"n">> -> <<"n","o","n","e">>
      [] t = <<"b">> -> <<"b","i","a","s">>
      [] t = <<"p">> -> <<"p","r","i","v","a","c","y">>
      [] t = <<"t">> -> <<"t","r","a","n","s","p","a","r","e","n","c","y">>
      [] t = <<"a">> -> <<"a","c","c","o","u","n","t","a","b","i","l","i","t","y">>
      [] t = <<"j">> -> <<"j","o","b","_","d","i","s","p","l","a","c","e","m","e","n","t">>
      [] t = <<"s">> -> <<"s","a","f","e","t","y">>
      [] t = <<"m">> -> <<"m","i","s","i","n","f","o","r","m","a","t","i","o","n">>
      [] t = <<"g">> -> <<"g","o","v","e","r","n","a","n","c","e">>
      [] t = <<"o">> -> <<"o","t","h","e","r">>
      [] OTHER -> t

EthicsFields ==
    {<<"n","o","n","e">>,
     <<"b","i","a","s">>,
     <<"p">>,
     <<"b",",","p">>,
     <<"p","r","i","v","a","c","y",",","b","i","a","s">>,
     <<"b","i","a","s",",","b","i","a","s">>,
     <<"x","y","z">>,
     <<"g","o","v","e","r","n","a","n","c","e">>,
     <<"P",","," ","B">>,
     <<"s","a","f","e","t","y",",","x","y","z">>,
     <<"b">>,
     <<"t","r","a","n","s","p","a","r","e","n","c","y">>,
     <<"j","o","b","_","d","i","s","p","l","a","c","e","m","e","n","t",",","s">>,
     <<"o","t","h","e","r">>,
     <<"B","I","A","S">>}

EthicsReplies ==
    {JoinPipe(<<i, l, <<"0",".","8">>, <<"0">>, e>>) :
        i \in {<<"1">>, <<"2">>}, l \in {<<"p","o","s">>, <<"n","e","g">>, <<"n">>, <<"+">>},
        e \in EthicsFields}

EthicsInit ==
    /\ Fresh
    /\ pc = "idle"
    /\ df = <<>>
    /\ max_prompt_chars = 2000
    /\ todo = <<>>
    /\ chunks = <<>>
    /\ parsed = EmptyDict
    /\ reply_text \in EthicsReplies
    /\ NoNet

EthicsSpec == EthicsInit /\ [][Parse]_vars

(***************************************************************************)
(* The reply parser on malformed replies: _parse_block applied to replies  *)
(* of one or two lines, some of them no record lines, and to replies that  *)
(* start with "{" and are or are not the JSON object of the expected shape.*)
(***************************************************************************)
SomeLines ==
    {<<"1","|","p","o","s","|","0",".","8","|","0","|","n","o","n","e">>,
     <<"2","|","n","e","g","|","-","0",".","6","|","1">>,
     <<"1","|","p","o","s","|","0",".","8">>,
     <<"x","|","p","o","s","|","0",".","8","|","0","|","n","o","n","e">>,
     <<"#","2","|","p","o","s","|","0",".","8","|","0","|","n","o","n","e">>,
     <<>>,
     <<" ","1","|","n","e","g","|","-","0",".","6","|","0","|","b","i","a","s">>,
     <<"S","u","r","e",":">>,
     <<"2">>}

BraceReplies ==
    {<<"{","\"","1","\"",":","{","\"","L","\"",":","\"","p","o","s","\"">>,
     <<"{","\"","1","\"",":","{","\"","L","\"",":","\"","p","o","s","\"",",","\"","S","\"",":","0",".","8",",","\"","Z","\"",":","0",",","\"","E","\"",":","\"","n","o","n","e","\"","}",",","\"","2","\"",":","7","}">>,
     <<"{","\"","1","\"",":","7","}">>,
     <<"{","\"","1","\"",":","{","\"","L","\"",":","1","}","}">>,
     <<"{","\"","1","\"",":","{","\"","L","\"",":","\"","p","o","s","\"",",","\"","S","\"",":","0",".","8",",","\"","Z","\"",":","0",",","\"","E","\"",":","\"","n","o","n","e","\"","}","}">>,
     <<"{","\"","1","\"",":","{","\"","L","\"",":","\"","p","o","s","\"","}","}","\n","2","|","n","e","g","|","-","0",".","6","|","1">>,
     <<"{","}">>,
     <<"{","\"","2","\"",":","{","\"","L","\"",":","\"","n","e","g","\"","}",",","\"","1","\"",":","n","u","l","l","}","\n","1","|","p","o","s","|","0",".","8","|","0">>}

MalformedReplies ==
    SomeLines \cup {a \o <<"\n">> \o b : a \in SomeLines, b \in SomeLines} \cup BraceReplies

MalformedInit ==
    /\ Fresh
    /\ pc = "idle"
    /\ df = <<>>
    /\ max_prompt_chars = 2000
    /\ todo = <<>>
    /\ chunks = <<>>
    /\ parsed = EmptyDict
    /\ reply_text \in MalformedReplies
    /\ NoNet

MalformedSpec == MalformedInit /\ [][Parse]_vars

(***************************************************************************)
(* Properties.                                                             *)
(***************************************************************************)
IdsOf(t) == [i \in 1..Len(t) |-> t[i].id]

Distinct(s) == \A i, j \in 1..Len(s) : s[i] = s[j] => i = j

\* the (id, cache_sig) key of an input row or of a line of a request
KeyOf(r) == <<r.id, _hash_sig(r.text)>>

\* the lines of every request sent so far by the invocation
SentLines == UNION {Range(sent[n]) : n \in 1..Len(sent)}

\* the ids of chunks 1..k
IdsUpTo(k) == UNION {Range(chunks[j].ids) : j \in 1..k}

HasRecord(f, rid) == \E k \in 1..Len(f.rows) : f.rows[k].id = rid

\* C1: when run_llm_batch returns for a non-empty input frame, the returned
\* table has exactly one row per distinct input id: every input id is there,
\* no id is on two rows, and no id absent from the input appears, whatever
\* the ledger file held before
C1_OneRowPerInputId ==
    pc = "returned" /\ df # <<>> =>
        /\ Range(IdsOf(ret)) = Range(IdsOf(df))
        /\ Distinct(IdsOf(ret))

\* C2: once a chunk has been processed, whatever the replies were, every id
\* of the chunk has a record, in the chunk's order; an id that no reply
\* supplied has exactly the record neutral / 0 / false / none; and once the
\* chunk is written the ledger file holds a record of every id, the chunk's
\* own unless the file held the id's key before the write
C2_EveryIdHasRecord ==
    pc \in {"writing", "emit"} =>
        /\ Len(rows) = Len(chunks[idx].ids)
        /\ \A i \in 1..Len(rows) :
            /\ rows[i].id = chunks[idx].ids[i]
            /\ rows[i].id \notin supplied =>
                 rows[i] = [id |-> chunks[idx].ids[i], llm_label |-> "neutral",
                            llm_score |-> 0, llm_sarcasm |-> FALSE,
                            llm_ethics |-> << <<"n", "o", "n", "e">> >>]
            /\ pc = "emit" =>
                 \E k \in 1..Len(file.rows) :
                    /\ file.rows[k].id = rows[i].id
                    /\ \/ <<rows[i].id, sig_map(todo, rows[i].id)>> \in Keys(file_old.rows)
                       \/ /\ file.rows[k].llm_label = rows[i].llm_label
                          /\ file.rows[k].llm_score = rows[i].llm_score
                          /\ file.rows[k].llm_sarcasm = rows[i].llm_sarcasm
                          /\ file.rows[k].llm_ethics = rows[i].llm_ethics

\* C2's case: a chunk has been written after a first reply and a repair
\* reply that both left an id of the chunk without a record
C2_DefaultedAfterRepair ==
    /\ pc = "emit"
    /\ passes >= 1
    /\ \E i \in 1..Len(rows) : rows[i].id \notin supplied /\ HasRecord(file, rows[i].id)

\* C3: a second run with the same input frame, right after a run that
\* returned, sends no request, leaves no two ledger records with the same
\* (id, cache_sig) key, and returns the same set of records as the first
C3_SecondRunIdempotent ==
    pc = "returned" /\ df # <<>> /\ last.end = "returned" /\ last.df = df =>
        /\ sent = <<>>
        /\ Cardinality(Keys(file.rows)) = Len(file.rows)
        /\ Range(ret) = last.ret

\* C4: the ledger is append-only: after every write of a run, every record
\* the file held before the run is still in it with the same field values,
\* and every other record has a key the file did not hold
C4_AppendOnly ==
    pc \in {"emit", "returned"} =>
        /\ \A i \in 1..Len(file0.rows) : file0.rows[i] \in Range(file.rows)
        /\ \A k \in 1..Len(file.rows) :
              \/ file.rows[k] \in Range(file0.rows)
              \/ <<file.rows[k].id, file.rows[k].cache_sig>> \notin Keys(file0.rows)

\* C5: before any request for chunk k+1, and before the progress callback
\* for chunk k, the ledger file holds a record for every row of chunks 1..k;
\* and a kill at any point leaves in the file a record for every row of the
\* chunks whose write had completed
C5_PersistedChunkByChunk ==
    /\ pc \in {"request", "repair", "merge"} =>
           \A rid \in IdsUpTo(idx - 1) : HasRecord(file, rid)
    /\ pc = "emit" => \A rid \in IdsUpTo(idx) : HasRecord(file, rid)
    /\ pc = "killed" => \A ln \in persisted : HasRecord(file, ln.id)

\* C6: in a run re-invoked with the same input after a kill, no row of the
\* chunks the killed run persisted is sent again, only rows whose key is not
\* in the ledger are requested, the run does not fail, and it returns with a
\* record for every input row
C6_ResumeAfterKill ==
    last.end = "killed" /\ last.df = df /\ df # <<>> =>
        /\ pc # "raised"
        /\ \A ln \in SentLines : ln \notin last.persisted
        /\ \A ln \in SentLines : KeyOf(ln) \notin Keys(file0.rows)
        /\ pc = "returned" => \A i \in 1..Len(df) : df[i].id \in Range(IdsOf(ret))

\* C7: after a kill at any point, the file is the complete ledger as it was
\* before the write in progress, or the complete new ledger
C7_WriteCrashAtomic ==
    pc = "killed" => file \in {file_old, CsvImage(df_out)}

\* C8: a missing, empty or truncated ledger file is an empty prior ledger:
\* the run does not fail and every input row is todo
C8_UnreadableLedgerIsEmpty ==
    /\ pc # "raised"
    /\ pc \in Running /\ ~file0.header => todo = Base(df)

\* C9: loading the file a run has written gives the (id, cache_sig) keys
\* that were written
C9_LedgerRoundTrip ==
    pc = "emit" =>
        /\ ~LoadPrior(file).raised
        /\ Keys(LoadPrior(file).rows) = Keys(file.rows)

\* the scenario of C10: the ledger the run loaded holds id 1 only, and the
\* input is id 1 and id 2 with the text id 1 is cached under
Id1CachedId2SameText ==
    /\ Len(df) = 2
    /\ df[1].id = 1
    /\ df[2].id = 2
    /\ df[1].text = df[2].text
    /\ Keys(prior) = {KeyOf(df[1])}

C11_ScoreSignMatchesLabel ==
    pc = "parsed" =>
        \A k \in DOMAIN parsed :
            /\ parsed[k].llm_label = "neutral" => parsed[k].llm_score = 0
            /\ parsed[k].llm_label = "positive" => parsed[k].llm_score >= 0
            /\ parsed[k].llm_label = "negative" => parsed[k].llm_score <= 0

\* the (chunk, position) pairs of the planned chunks
Slots ==
    {jk \in (1..Len(chunks)) \X (1..MaxChunkRows) : jk[2] <= Len(chunks[jk[1]].ids)}

\* C12: the chunks partition the todo rows: the chunks' id lists, one after
\* the other, are the todo rows' ids in their order, and so are their lines,
\* each the whole line of its row; no chunk is empty; an id on one todo row
\* is in exactly one chunk; an empty todo frame gives no chunks
C12_ChunksPartitionTodo ==
    pc = "planned" =>
        /\ Flatten([j \in 1..Len(chunks) |-> chunks[j].ids]) = IdsOf(todo)
        /\ Flatten([j \in 1..Len(chunks) |-> chunks[j].lines]) =
              [i \in 1..Len(todo) |-> Line(todo[i])]
        /\ \A j \in 1..Len(chunks) :
              /\ chunks[j].ids # <<>>
              /\ chunks[j].ids = IdsOf(chunks[j].lines)
        /\ \A i \in 1..Len(todo) :
              Cardinality({jk \in Slots : chunks[jk[1]].ids[jk[2]] = todo[i].id}) =
              Cardinality({n \in 1..Len(todo) : todo[n].id = todo[i].id})
        /\ todo = <<>> => chunks = <<>>

\* C12's case: three rows planned as a chunk of two rows and a chunk of one
C12_TwoChunksOfThreeRows ==
    /\ pc = "planned"
    /\ Len(todo) = 3
    /\ Len(chunks) = 2
    /\ Len(chunks[1].ids) = 2

\* C13: no chunk's serialized request, system message plus user message, is
\* longer than max_prompt_chars, and no line carries more of its row's text
\* than the per-row cap
C13_RequestWithinMaxPromptChars ==
    pc = "planned" =>
        \A j \in 1..Len(chunks) :
            /\ SysMsgLen + chunks[j].user_len <= max_prompt_chars
            /\ \A k \in 1..Len(chunks[j].lines) : TextLen(chunks[j].lines[k].text) <= RowCap

\* the timestamps of ts in the 60 seconds that end with ts[i]
InWindow(ts, i) == {j \in 1..Len(ts) : ts[i] - window <= ts[j] /\ ts[j] <= ts[i]}

\* C14: the timestamps the limiter has recorded never include more than rpm
\* in the 60 seconds up to any of them; and a call that found rpm timestamps
\* inside the window returned only after the oldest of them had left it
C14_LimiterWindow ==
    /\ \A i \in 1..Len(recorded) : Cardinality(InWindow(recorded, i)) <= rpm
    /\ n_calls > 0 /\ Len(entered.times) >= rpm => now - Head(entered.times) > window

\* C14's case: with rpm = 2 a call found two timestamps inside the window
C14_CallFoundWindowFull ==
    /\ rpm = 2
    /\ n_calls >= 3
    /\ Len(entered.times) = 2

Contains(s, sub) ==
    \E i \in 0..(Len(s) - Len(sub)) : SubSeq(s, i + 1, i + Len(sub)) = sub

\* C16: on a 4xx other than 429 the client returns after that attempt without
\* sleeping, and the string it returns embeds the status code, whatever the
\* response body is
C16_SentinelEmbedsStatus ==
    npc = "idle" /\ last_response.kind = "4xx" =>
        /\ last_response.slept = 0
        /\ Contains(result, Str(last_response.status))

\* C19: the POSTs sent in any 60 seconds, retry attempts included, are never
\* more than rpm
C19_PostsWithinRpm ==
    \A i \in 1..Len(posts) : Cardinality(InWindow(posts, i)) <= rpm

\* a text with every line break, CR LF, CR or LF, written as one space
RECURSIVE BreaksAsSpaces(_)
BreaksAsSpaces(t) ==
    IF t = <<>> THEN <<>>
    ELSE IF Len(t) >= 2 /\ t[1].c = "\r" /\ t[2].c = "\n"
         THEN <<Run(" ", t[1].n + t[2].n - 1)>> \o BreaksAsSpaces(SubSeq(t, 3, Len(t)))
         ELSE <<Run(IF t[1].c \in {"\r", "\n"} THEN " " ELSE t[1].c, t[1].n)>>
              \o BreaksAsSpaces(Tail(t))

\* the normalized text: line breaks as single spaces, outer whitespace off
Normalized(t) == Canon(StripRuns(BreaksAsSpaces(t)))

\* C17: two texts that differ only in how line breaks are written (CR, LF or
\* CR LF against a single space) or in outer whitespace have the same
\* signature, whatever the rows' ids and order
C17_SignatureOfNormalizedText ==
    pc = "signed" =>
        \A i, j \in 1..Len(df) :
            Normalized(df[i].text) = Normalized(df[j].text) =>
                todo[i].cache_sig = todo[j].cache_sig

\* C18: starting from an empty ledger, after every ledger write of every run
\* (frames may differ between runs, runs may be killed and restarted, a frame
\* may hold the same id on more than one row) the ledger file never holds
\* two records with the same (id, cache_sig) key
C18_LedgerKeysUnique ==
    pc = "emit" =>
        \A i, j \in 1..Len(file.rows) :
            <<file.rows[i].id, file.rows[i].cache_sig>> =
                <<file.rows[j].id, file.rows[j].cache_sig>> => i = j

OwnLine(text, rid) ==
    LET ls == SplitLines(text)
        k == CHOOSE i \in 1..Len(ls) : Split(ls[i], "|")[1] = Str(rid)
    IN  Split(ls[k], "|")

\* C21: reply records are attributed by id, not by position: when the reply
\* has one well-formed line for every id of the chunk, in any order, each
\* output record carries the label, score, sarcasm and ethics written on the
\* line that starts with its own id
C21_AttributedById ==
    pc = "answered" =>
        /\ Len(rows) = Len(chunks[1].ids)
        /\ \A i \in 1..Len(rows) :
              LET f == OwnLine(reply_text, chunks[1].ids[i])
              IN  /\ rows[i].id = chunks[1].ids[i]
                  /\ rows[i].llm_label = "positive" <=> f[2] = <<"p","o","s","i","t","i","v","e">>
                  /\ rows[i].llm_label = "negative" <=> f[2] = <<"n","e","g","a","t","i","v","e">>
                  /\ rows[i].llm_score = 800 <=> f[3] = <<"0",".","8">>
                  /\ rows[i].llm_score = -600 <=> f[3] = <<"-","0",".","6">>
                  /\ rows[i].llm_score = 0 <=> f[3] = <<"0">>
                  /\ rows[i].llm_sarcasm <=> f[4] = <<"1">>
                  /\ rows[i].llm_ethics = <<f[5]>>

\* the reply "2|negative|-0.6|0|none" then "1|positive|0.8|0|none" for the
\* chunk of ids 1, 2: the lines come in the other order than the ids
C21_SwappedReply ==
    /\ pc = "answered"
    /\ chunks[1].ids = <<1, 2>>
    /\ SplitLines(reply_text) =
          <<JoinPipe(<< <<"2">>, <<"n","e","g","a","t","i","v","e">>, <<"-","0",".","6">>,
                        <<"0">>, <<"n","o","n","e">> >>),
            JoinPipe(<< <<"1">>, <<"p","o","s","i","t","i","v","e">>, <<"0",".","8">>,
                        <<"0">>, <<"n","o","n","e">> >>)>>
    /\ rows[1].llm_label = "positive" /\ rows[1].llm_score = 800
    /\ rows[2].llm_label = "negative" /\ rows[2].llm_score = -600

\* the least index of s at which p starts
Find(s, p) == CHOOSE i \in 1..Len(s) : At(s, i, p) /\ \A j \in 1..(i - 1) : ~At(s, j, p)

\* the sarcasm token of a one-record reply: the fourth field of the line, or
\* the value of "Z" in the object, without the quotes of a JSON string
SarcasmToken(text) ==
    IF Head(text) = "{"
    THEN StripChars(SubSeq(text, Find(text, <<"Z","\"",":">>) + 3,
                           Find(text, <<",","\"","E">>) - 1), {"\""})
    ELSE Split(text, "|")[4]

\* C22: in both reply formats (JSON object, pipe-delimited lines) the parsed
\* sarcasm flag is true if and only if the sarcasm token, compared without
\* regard to case, is one of 1, y, yes, true
C22_SarcasmIffToken ==
    pc = "parsed" =>
        /\ DOMAIN parsed # {}
        /\ \A k \in DOMAIN parsed :
              parsed[k].llm_sarcasm <=>
                  Lower(SarcasmToken(reply_text)) \in
                      {<<"1">>, <<"y">>, <<"y","e","s">>, <<"t","r","u","e">>}

\* the tags the comma-separated tokens of an ethics field name: each token
\* trimmed, lower-cased, its one-letter code replaced by the full name, and
\* kept if it is in the vocabulary
NamedTags(field) ==
    {ETH_SHORT2FULL(t) : t \in Tokens(Split(field, ","))} \cap Range(ETHICS_CODES_FULL)

\* C23: the parsed ethics is computed from the comma-separated tokens by
\* mapping abbreviated codes to full tag names and dropping every token
\* outside the closed vocabulary: it is "none" when nothing survives, else
\* the sorted, duplicate-free surviving tags
C23_EthicsMappedAndFiltered ==
    pc = "parsed" =>
        \A k \in DOMAIN parsed :
            LET e == parsed[k].llm_ethics
                want == NamedTags(Split(reply_text, "|")[5])
            IN  /\ want = {} => e = <<None>>
                /\ want # {} => Range(e) = want
                /\ \A i, j \in 1..Len(e) :
                      i < j => \E a, b \in 1..Len(ETHICS_CODES_FULL) :
                                  /\ a < b
                                  /\ ETHICS_CODES_FULL[a] = e[i]
                                  /\ ETHICS_CODES_FULL[b] = e[j]

\* the label token of a one-line reply, lower-cased
LabelToken(text) == Lower(Strip(Split(text, "|")[2]))

\* C24 as stated: the tokens '-' and 'neg' map to negative, '+' and 'pos' to
\* positive, and every other token maps to neutral, whatever its case
C24_OnlyShorthandIsPolar ==
    pc = "parsed" =>
        /\ DOMAIN parsed # {}
        /\ \A k \in DOMAIN parsed :
              parsed[k].llm_label =
                  IF LabelToken(reply_text) \in {<<"-">>, <<"n","e","g">>} THEN "negative"
                  ELSE IF LabelToken(reply_text) \in {<<"+">>, <<"p","o","s">>} THEN "positive"
                  ELSE "neutral"

\* C24 as amended: label normalization is total and case-insensitive: '-'
\* and every token that starts with 'neg' map to negative, '+' and every
\* token that starts with 'pos' map to positive, every other token to neutral
C24_PrefixIsPolar ==
    pc = "parsed" =>
        /\ DOMAIN parsed # {}
        /\ \A k \in DOMAIN parsed :
              parsed[k].llm_label =
                  IF LabelToken(reply_text) = <<"-">>
                     \/ StartsWith(LabelToken(reply_text), <<"n","e","g">>) THEN "negative"
                  ELSE IF LabelToken(reply_text) = <<"+">>
                     \/ StartsWith(LabelToken(reply_text), <<"p","o","s">>) THEN "positive"
                  ELSE "neutral"

\* the reply wrote POSITIVE and the record is positive
C24_UpperCaseWord ==
    /\ pc = "parsed"
    /\ Split(reply_text, "|")[2] = <<"P","O","S","I","T","I","V","E">>
    /\ \E k \in DOMAIN parsed : parsed[k].llm_label = "positive"

\* the lines of a reply, each without its surrounding whitespace
TrimmedLines(text) ==
    LET ls == SplitLines(Strip(text)) IN [i \in 1..Len(ls) |-> Strip(ls[i])]

\* the same, also without surrounding '#' characters
BareLines(text) ==
    LET ls == SplitLines(Strip(text))
    IN  [i \in 1..Len(ls) |-> Strip(StripChars(Strip(ls[i]), {"#"}))]

\* a line that starts with a digit and has at least 4 pipe-delimited fields
RecordLine(l) == l # <<>> /\ Head(l) \in Digits /\ Len(Split(l, "|")) >= 4

LineId(l) == IntOf(OnlyDigits(Strip(Split(l, "|")[1])))

\* the records come from the record lines among ls, and from nowhere else:
\* every record line gives its id a record, every record not in kept has a
\* record line, and a last record line of 4 fields leaves ethics "none"
FromRecordLines(ls, kept) ==
    /\ \A i \in 1..Len(ls) : RecordLine(ls[i]) => LineId(ls[i]) \in DOMAIN parsed
    /\ \A k \in DOMAIN parsed :
          LET at == {i \in 1..Len(ls) : RecordLine(ls[i]) /\ LineId(ls[i]) = k}
          IN  IF at = {} THEN k \in DOMAIN kept /\ parsed[k] = kept[k]
              ELSE LET l == ls[CHOOSE i \in at : \A j \in at : j <= i]
                   IN  Len(Split(l, "|")) = 4 => parsed[k].llm_ethics = <<None>>

\* the reply is the JSON object of the expected shape
ExpectedJson(text) ==
    Strip(text) # <<>> /\ Head(Strip(text)) = "{" /\ JsonBranch(json_loads(Strip(text))).ok

\* C25 as stated: a line that does not start with a digit or has fewer than
\* 4 pipe-delimited fields contributes no record, a line of exactly 4 fields
\* is accepted with ethics "none", and a reply that starts with '{' but is
\* not valid JSON of the expected shape is parsed as lines
C25_OnlyDigitLinesGiveRecords ==
    (pc = "parsed" /\ ~ExpectedJson(reply_text)) =>
        FromRecordLines(TrimmedLines(reply_text), EmptyDict)

\* C25 as amended: the same of the lines once their surrounding whitespace
\* and '#' characters are stripped, and the fallback to line parsing keeps
\* the records of the JSON entries read before the first malformed one
C25_OnlyBareDigitLinesGiveRecords ==
    (pc = "parsed" /\ ~ExpectedJson(reply_text)) =>
        FromRecordLines(BareLines(reply_text),
                        IF Strip(reply_text) # <<>> /\ Head(Strip(reply_text)) = "{"
                        THEN JsonBranch(json_loads(Strip(reply_text))).out
                        ELSE EmptyDict)

\* the reply "Sure:" then "2|neg|-0.6|1": no record of the first line, and
\* the record of id 2 with ethics "none"
C25_CommentaryThenFourFields ==
    /\ pc = "parsed"
    /\ TrimmedLines(reply_text) =
          <<<<"S","u","r","e",":">>,
            <<"2","|","n","e","g","|","-","0",".","6","|","1">>>>
    /\ DOMAIN parsed = {2}
    /\ parsed[2].llm_ethics = <<None>>

\* C26: with a non-empty todo the progress callback is invoked after every
\* chunk, in increasing chunk index 1..n with n the planned chunk count,
\* each time after that chunk's ledger write, and the cache-hit count it
\* reports is the number of input rows that were found in the ledger
C26_ProgressAfterEveryChunk ==
    /\ \A k \in 1..Len(emitted) :
          /\ emitted[k].chunk = <<k - 1, Len(chunks)>>
          /\ emitted[k].planned = Len(chunks)
          /\ emitted[k].cache = Len(df) - Len(todo)
    /\ pc \in {"request", "repair", "merge", "writing", "emit"} => Len(emitted) = idx
    /\ (pc = "returned" /\ todo # <<>>) => Len(emitted) = Len(chunks) + 1
    /\ \A k \in 2..Len(emitted) : Range(chunks[k - 1].lines) \subseteq persisted

\* C27: an invocation whose input frame is empty, or whose every row has its
\* (id, signature) key in the ledger file, returns at once: no request, no
\* rate-limiter call, no progress callback, and the ledger file unchanged
C27_ShortCircuitFrame ==
    [][(/\ runs' = runs + 1
        /\ \A i \in 1..Len(df') :
              <<df'[i].id, _hash_sig(df'[i].text)>> \in Keys(file.rows))
       => /\ pc' = "returned"
          /\ file' = file
          /\ sent' = <<>>
          /\ emitted' = <<>>
          /\ _LLM_RATELIMIT_TIMES' = _LLM_RATELIMIT_TIMES]_vars

\* the record neutral / 0 / false / none
IsDefault(r) ==
    /\ r.llm_label = "neutral" /\ r.llm_score = 0
    /\ r.llm_sarcasm = FALSE /\ r.llm_ethics = <<None>>

\* C28: a defaulted row is permanent: once the chunk of a row no reply
\* supplied is written, the row's (id, signature) key is in the ledger, and
\* no later run sends a row whose key the ledger holds with the default
\* record
C28_DefaultedRowStaysCached ==
    /\ pc = "emit" =>
          \A ln \in Range(chunks[idx].lines) :
              ln.id \notin supplied => KeyOf(ln) \in Keys(file.rows)
    /\ \A ln \in SentLines :
          ~\E k \in 1..Len(file0.rows) :
              /\ <<file0.rows[k].id, file0.rows[k].cache_sig>> = KeyOf(ln)
              /\ IsDefault(file0.rows[k])

\* C29: a record a reply supplies for an id that is not an id of the chunk
\* being processed never reaches the ledger: the records a chunk adds to the
\* ledger are exactly one per id of that chunk, after those it held
C29_OneRecordPerChunkId ==
    [][(pc = "merge" /\ pc' = "writing") =>
          /\ Len(df_out') >= Len(df_out)
          /\ SubSeq(df_out', 1, Len(df_out)) = df_out
          /\ {df_out'[k].id : k \in (Len(df_out) + 1)..Len(df_out')} = Range(chunks[idx].ids)
          /\ \A k, m \in (Len(df_out) + 1)..Len(df_out') :
                df_out'[k].id = df_out'[m].id => k = m]_vars

\* C30: when the input ids are unique, the rows missing from a chunk fit
\* into one repair sub-chunk, so a chunk gets at most two requests, its first
\* and one repair; a run with n planned chunks sends at most 2n requests,
\* and each request comes with exactly one call of the rate limiter
C30_TwoRequestsPerChunk ==
    Distinct(IdsOf(df)) =>
        /\ Len(sub_chunks) <= 1
        /\ passes <= 1
        /\ pc \in Running => Len(sent) <= 2 * (idx - 1) + 1 + passes
        /\ Len(sent) <= 2 * Len(chunks)
        /\ n_calls = Len(sent)

\* a frame of two ids in two chunks, both of which needed their repair
C30_EveryChunkRepaired ==
    /\ Distinct(IdsOf(df))
    /\ pc = "returned"
    /\ Len(chunks) = 2
    /\ Len(sent) = 4
    /\ n_calls = 4

============================================================================
